---- MODULE Spec2Model ----
(***************************************************************************)
(* The activity-report generator: the Flask form handler of src/app.py    *)
(* (index and its helpers) and the PDF assembly of src/report_logic.py.   *)
(*                                                                         *)
(* Text is a sequence of one-character strings; a path is a sequence whose *)
(* first three elements name the directory ("uploads/", "photos", "/") and *)
(* whose rest are the characters of the file name.                         *)
(***************************************************************************)
EXTENDS Integers, Sequences, FiniteSets, TLC

VARIABLES
    now,        \* the wall clock, in milliseconds (time.time() * 1000)
    workload,   \* what the clients of this run send
    pc,         \* per request: the handler's position in index()
    idx,        \* per request: the loop variable i of the two upload loops
    pending,    \* per request: the save_uploaded_file call under way
    left,       \* per request: file parts the client may still attach
    req,        \* per request: the form values and file parts read so far
    data,       \* per request: the report payload being collected
    out,        \* per request: the HTTP response
    fs,         \* the upload directory: path -> file content
    saves,      \* every save_uploaded_file call that wrote a file
    log,        \* per request: what the handler printed
    arrival,    \* per request: the clock when the request arrived
    call        \* a direct call of one library function (SpecCalls)

vars == <<now, workload, pc, idx, pending, left, req, data, out, fs, saves,
          log, arrival, call>>

(***************************************************************************)
(* Strings                                                                 *)
(***************************************************************************)
UpperLetters ==
    <<"A","B","C","D","E","F","G","H","I","J","K","L","M",
      "N","O","P","Q","R","S","T","U","V","W","X","Y","Z">>

LowerLetters ==
    <<"a","b","c","d","e","f","g","h","i","j","k","l","m",
      "n","o","p","q","r","s","t","u","v","w","x","y","z">>

Digits == <<"0","1","2","3","4","5","6","7","8","9">>

Range(s) == {s[i] : i \in 1..Len(s)}

LowerChar(c) ==
    IF \E i \in 1..Len(UpperLetters) : UpperLetters[i] = c
    THEN LowerLetters[CHOOSE i \in 1..Len(UpperLetters) : UpperLetters[i] = c]
    ELSE c

\* str.lower()
lower(s) == [i \in 1..Len(s) |-> LowerChar(s[i])]

Whitespace == {" ", "\t", "\n", "\r"}

RECURSIVE lstrip(_, _)
lstrip(s, cs) ==
    IF s # <<>> /\ Head(s) \in cs THEN lstrip(Tail(s), cs) ELSE s

RECURSIVE rstrip(_, _)
rstrip(s, cs) ==
    IF s # <<>> /\ s[Len(s)] \in cs
    THEN rstrip(SubSeq(s, 1, Len(s) - 1), cs)
    ELSE s

\* str.strip(), and str.strip(chars)
stripChars(s, cs) == rstrip(lstrip(s, cs), cs)
strip(s) == stripChars(s, Whitespace)

\* str.split(sep) for a one-character separator: the pieces between separators
RECURSIVE split(_, _)
split(s, seps) ==
    IF \A i \in 1..Len(s) : s[i] \notin seps
    THEN <<s>>
    ELSE LET k == CHOOSE i \in 1..Len(s) :
                      s[i] \in seps /\ \A j \in 1..(i - 1) : s[j] \notin seps
         IN  <<SubSeq(s, 1, k - 1)>> \o split(SubSeq(s, k + 1, Len(s)), seps)

RECURSIVE Flatten(_)
Flatten(ss) == IF ss = <<>> THEN <<>> ELSE Head(ss) \o Flatten(Tail(ss))

RECURSIVE join(_, _)
join(sep, ss) ==
    IF ss = <<>> THEN <<>>
    ELSE IF Len(ss) = 1 THEN ss[1]
    ELSE ss[1] \o sep \o join(sep, Tail(ss))

NonEmpty(s) == s # <<>>

\* The position of the last "." of s, 0 when there is none
LastDot(s) ==
    IF \E i \in 1..Len(s) : s[i] = "."
    THEN CHOOSE i \in 1..Len(s) :
             s[i] = "." /\ \A j \in (i + 1)..Len(s) : s[j] # "."
    ELSE 0

\* The decimal digits of a natural number
RECURSIVE str(_)
str(n) ==
    IF n < 10 THEN <<Digits[n + 1]>>
    ELSE str(n \div 10) \o <<Digits[(n % 10) + 1]>>

(***************************************************************************)
(* Files and paths                                                         *)
(***************************************************************************)
\* The content of a file: an image of w x h pixels, the first column of a
\* workbook's first sheet (one cell per row), or bytes that are neither
ImageFile(w, h) == [kind |-> "image", w |-> w, h |-> h, rows |-> <<>>]
Workbook(rows) == [kind |-> "xlsx", w |-> 0, h |-> 0, rows |-> rows]
JunkFile == [kind |-> "junk", w |-> 0, h |-> 0, rows |-> <<>>]

\* A cell of the first column: empty, text, or one openpyxl cannot read
BlankCell == [t |-> "blank", v |-> <<>>]
TextCell(v) == [t |-> "text", v |-> v]
BadCell == [t |-> "bad", v |-> <<>>]

\* Python's None (and the empty string) where a path is expected
NoPath == <<>>

UPLOAD_FOLDER == "uploads/"

\* os.path.join(app.config['UPLOAD_FOLDER'], subfolder), os.path.join(dest_dir, name)
DestDir(subfolder) == <<UPLOAD_FOLDER, subfolder, "/">>
PathJoin(dest_dir, name) == dest_dir \o name

\* os.path.exists
Exists(path, disk) == path \in DOMAIN disk

\* os.path.splitext: the extension starts at the last "." of the file name
SplitExt(path) ==
    LET k == LastDot(path)
    IN  IF k = 0 THEN <<path, <<>>>>
        ELSE <<SubSeq(path, 1, k - 1), SubSeq(path, k, Len(path))>>

ALLOWED_IMAGE_EXTS ==
    {<<"p","n","g">>, <<"j","p","g">>, <<"j","p","e","g">>, <<"g","i","f">>}

ALLOWED_EXCEL_EXTS == {<<"x","l","s","x">>}

allowed_file_nolower(filename, allowed_set) ==
    /\ "." \in Range(filename)
    /\ SubSeq(filename, LastDot(filename) + 1, Len(filename)) \in allowed_set

\* '.' in filename and filename.rsplit('.', 1)[1].lower() in allowed_set
allowed_file(filename, allowed_set) ==
    /\ "." \in Range(filename)
    /\ lower(SubSeq(filename, LastDot(filename) + 1, Len(filename)))
           \in allowed_set

\* The characters werkzeug's secure_filename keeps: [A-Za-z0-9_.-]
FilenameChars ==
    Range(UpperLetters) \cup Range(LowerLetters) \cup Range(Digits)
        \cup {"_", ".", "-"}

\* werkzeug.utils.secure_filename: path separators become spaces, runs of
\* whitespace become "_", every other character outside FilenameChars is
\* dropped, and leading and trailing "." and "_" are stripped.
secure_filename(filename) ==
    LET spaced == [i \in 1..Len(filename) |->
                      IF filename[i] = "/" THEN " " ELSE filename[i]]
        words  == SelectSeq(split(spaced, Whitespace), NonEmpty)
        joined == join(<<"_">>, words)
        kept   == SelectSeq(joined, LAMBDA c : c \in FilenameChars)
    IN  stripChars(kept, {".", "_"})

SavedName_nots(ts, filename) == filename

\* name = f"{ts}_{filename}"
SavedName(ts, filename) == str(ts) \o <<"_">> \o filename

(***************************************************************************)
(* Attendance parsing (src/app.py)                                         *)
(***************************************************************************)
\* Text that pandas reads as a missing value (keep_default_na): a cell
\* holding one of these is NaN in the data frame
STR_NA_VALUES ==
    {<<>>, <<"N","A">>, <<"N","/","A">>, <<"n","/","a">>, <<"N","a","N">>,
     <<"n","a","n">>, <<"N","U","L","L">>, <<"n","u","l","l">>,
     <<"N","o","n","e">>}

\* The data frame's first column is the cells below the first row
read_excel_noheader(path, disk) ==
    IF ~Exists(path, disk) \/ disk[path].kind # "xlsx"
           \/ \E i \in 1..Len(disk[path].rows) : disk[path].rows[i].t = "bad"
    THEN [ok |-> FALSE, ncols |-> 0, col |-> <<>>]
    ELSE [ok |-> TRUE,
          ncols |-> IF disk[path].rows = <<>> THEN 0 ELSE 1,
          col |-> [i \in 1..Len(disk[path].rows) |->
                      IF disk[path].rows[i].t = "text"
                             /\ disk[path].rows[i].v \notin STR_NA_VALUES
                      THEN disk[path].rows[i]
                      ELSE BlankCell]]

\* pd.read_excel(path, engine='openpyxl'): raises for a missing file, for
\* bytes that are no workbook and for a cell openpyxl cannot convert; the
\* first row names the columns, and the rows below it are the data, with
\* empty cells and missing-value text as NaN
read_excel(path, disk) ==
    IF ~Exists(path, disk) \/ disk[path].kind # "xlsx"
           \/ \E i \in 1..Len(disk[path].rows) : disk[path].rows[i].t = "bad"
    THEN [ok |-> FALSE, ncols |-> 0, col |-> <<>>]
    ELSE LET rows == disk[path].rows
         IN  [ok |-> TRUE,
              ncols |-> IF rows = <<>> THEN 0 ELSE 1,
              col |-> [i \in 1..(Len(rows) - 1) |->
                          IF rows[i + 1].t = "text"
                                 /\ rows[i + 1].v \notin STR_NA_VALUES
                          THEN rows[i + 1]
                          ELSE BlankCell]]

HEADER_WORDS ==
    {<<"n","a","m","e">>, <<"n","a","m","e","s">>,
     <<"p","a","r","t","i","c","i","p","a","n","t">>,
     <<"p","a","r","t","i","c","i","p","a","n","t"," ","n","a","m","e">>}

PARSE_ERROR == "Error parsing excel:"

\* A variant that reads what it can: the cells a bad row does not reach
parse_attendance_excel_partial(path, disk) ==
    IF ~Exists(path, disk) \/ disk[path].kind # "xlsx"
    THEN [ret |-> <<>>, logged |-> <<PARSE_ERROR>>]
    ELSE LET rows == IF disk[path].rows = <<>> THEN <<>>
                     ELSE Tail(disk[path].rows)
             good == SelectSeq(rows, LAMBDA c : c.t = "text")
             vals == [i \in 1..Len(good) |-> strip(good[i].v)]
         IN  [ret |-> SelectSeq(vals, NonEmpty),
              logged |-> IF Len(good) = Len(rows) THEN <<>>
                         ELSE <<PARSE_ERROR>>]

\* parse_attendance_excel(path): what it returns and what it prints
parse_attendance_excel(path, disk) ==
    LET df == read_excel(path, disk)
    IN  IF ~df.ok
        THEN [ret |-> <<>>, logged |-> <<PARSE_ERROR>>]
        ELSE IF df.ncols = 0
        THEN [ret |-> <<>>, logged |-> <<>>]
        ELSE LET notna     == SelectSeq(df.col, LAMBDA c : c.t = "text")
                 first_col == [i \in 1..Len(notna) |-> notna[i].v]
                 dropped   == IF Len(first_col) > 0
                                     /\ lower(strip(first_col[1])) \in HEADER_WORDS
                              THEN Tail(first_col)
                              ELSE first_col
                 stripped  == [i \in 1..Len(dropped) |-> strip(dropped[i])]
             IN  [ret |-> SelectSeq(stripped, NonEmpty), logged |-> <<>>]

\* parse_attendance_text(text)
parse_attendance_text(text) ==
    IF text = <<>> THEN <<>>
    ELSE LET lines    == split(text, {"\n", "\r"})
             names(l) == LET line == strip(l)
                         IN  IF line = <<>> THEN <<>>
                             ELSE IF "," \in Range(line)
                             THEN LET ps == split(line, {","})
                                      st == [i \in 1..Len(ps) |-> strip(ps[i])]
                                  IN  SelectSeq(st, NonEmpty)
                             ELSE <<line>>
         IN  Flatten([i \in 1..Len(lines) |-> names(lines[i])])

(***************************************************************************)
(* Images and flowables (src/report_logic.py)                              *)
(* Pixel sizes are integers; draw sizes are in tenths of a point, spacer   *)
(* heights in hundredths of an inch.                                       *)
(***************************************************************************)
MAX_IMAGE_WIDTH_TENTH_INCH == 66
MAX_IMAGE_PX == 1200

\* The page frame of SimpleDocTemplate(pagesize=A4, margins of 0.7 inch), in
\* tenths of a point: the page height, a margin, the frame's padding
A4_HEIGHT == 8418
MARGIN == 504
FRAME_PADDING == 60
FRAME_HEIGHT == A4_HEIGHT - 2 * MARGIN - 2 * FRAME_PADDING

RESIZED == <<"_","r","e","s","i","z","e","d">>

\* The extensions PIL's Image.save maps to a format, among those that occur
PIL_EXTENSIONS ==
    {<<".","p","n","g">>, <<".","j","p","g">>, <<".","j","p","e","g">>,
     <<".","g","i","f">>}

RESIZE_ERROR == "Image resize error:"
FLOWABLE_ERROR == "Error creating image flowable:"

\* A variant that lets its exceptions out
ensure_image_resized_raising(path, disk) ==
    IF ~Exists(path, disk) \/ disk[path].kind # "image"
    THEN [ok |-> FALSE, path |-> path, disk |-> disk, logged |-> <<>>]
    ELSE [ok |-> TRUE, path |-> path, disk |-> disk, logged |-> <<>>]

\* ensure_image_resized(path): the path it returns, the files it leaves and
\* what it prints. PILImage.open raises for a missing file and for bytes
\* that are no image, Image.resize for a size below 1 pixel, Image.save
\* for an extension that names no format; every exception is caught.
\* int(w * ratio) and int(h * ratio) are the quotients below exactly for
\* the sizes drawn here (double rounding can lose 1 pixel for others).
ensure_image_resized(path, disk) ==
    IF ~Exists(path, disk) \/ disk[path].kind # "image"
    THEN [ok |-> TRUE, path |-> path, disk |-> disk,
          logged |-> <<RESIZE_ERROR>>]
    ELSE LET w == disk[path].w
             h == disk[path].h
         IN  IF w > MAX_IMAGE_PX
             THEN LET new_w    == (w * MAX_IMAGE_PX) \div w
                      new_h    == (h * MAX_IMAGE_PX) \div w
                      base     == SplitExt(path)[1]
                      ext      == SplitExt(path)[2]
                      new_path == base \o RESIZED \o ext
                  IN  IF new_w < 1 \/ new_h < 1
                             \/ lower(ext) \notin PIL_EXTENSIONS
                      THEN [ok |-> TRUE, path |-> path, disk |-> disk,
                            logged |-> <<RESIZE_ERROR>>]
                      ELSE [ok |-> TRUE, path |-> new_path,
                            disk |-> (new_path :> ImageFile(new_w, new_h))
                                         @@ disk,
                            logged |-> <<>>]
             ELSE [ok |-> TRUE, path |-> path, disk |-> disk,
                   logged |-> <<>>]

\* Flowables: text is the fixed text, arg the value formatted into it
Paragraph(text, arg, style) ==
    [type |-> "Paragraph", style |-> style, text |-> text, arg |-> arg,
     rows |-> <<>>, w |-> 0, h |-> 0]

Spacer(h) ==
    [type |-> "Spacer", style |-> "", text |-> "", arg |-> <<>>,
     rows |-> <<>>, w |-> 1, h |-> h]

Table(rows) ==
    [type |-> "Table", style |-> "", text |-> "", arg |-> <<>>,
     rows |-> rows, w |-> 0, h |-> 0]

Image(path, w, h) ==
    [type |-> "Image", style |-> "", text |-> "", arg |-> path,
     rows |-> <<>>, w |-> w, h |-> h]

SectionTitle(text) == Paragraph(text, <<>>, "SectionTitle")

\* make_table_from_dict(dct): dct is the sequence of the dict's items
make_table_from_dict(dct) ==
    IF dct = <<>> THEN <<>>
    ELSE <<Table([i \in 1..Len(dct) |->
                     <<Paragraph(dct[i][1], <<>>, "TableKey"),
                       Paragraph("", dct[i][2], "TableValue")>>]),
           Spacer(8)>>

NO_ATTENDANCE == "No attendance records provided."

\* participant_table(names)
participant_table(names) ==
    IF names = <<>>
    THEN <<Paragraph(NO_ATTENDANCE, <<>>, "NormalText"), Spacer(8)>>
    ELSE <<Table(<<<<Paragraph("Participant Name", <<>>, "TableKey")>>>>
                 \o [i \in 1..Len(names) |->
                        <<Paragraph("", names[i], "TableValue")>>]),
           Spacer(12)>>

IMAGE_NOT_FOUND == "[Image not found: {path}]"
IMAGE_FAILED == "[Failed to load image: {path}]"

\* A variant that lets the exception of reportlab's Image out
image_flowable_raising(path, disk) ==
    IF path = NoPath \/ ~Exists(path, disk)
    THEN [ok |-> TRUE,
          flow |-> Paragraph(IMAGE_NOT_FOUND, path, "NormalText"),
          logged |-> <<>>]
    ELSE [ok |-> disk[path].kind = "image",
          flow |-> Image(path, disk[path].w * 10, disk[path].h * 10),
          logged |-> <<>>]

\* image_flowable(path): the flowable and what is printed. Image(path) has
\* the image's pixel size as its draw size in points, and raises (at the
\* read of drawWidth) for bytes that are no image.
image_flowable(path, disk) ==
    IF path = NoPath \/ ~Exists(path, disk)
    THEN [ok |-> TRUE,
          flow |-> Paragraph(IMAGE_NOT_FOUND, path, "NormalText"),
          logged |-> <<>>]
    ELSE IF disk[path].kind # "image"
    THEN [ok |-> TRUE,
          flow |-> Paragraph(IMAGE_FAILED, path, "NormalText"),
          logged |-> <<FLOWABLE_ERROR>>]
    ELSE LET max_w_pts == MAX_IMAGE_WIDTH_TENTH_INCH * 72
             iw == disk[path].w * 10
             ih == disk[path].h * 10
         IN  [ok |-> TRUE,
              flow |-> IF iw > max_w_pts
                       THEN Image(path, (iw * max_w_pts) \div iw,
                                  (ih * max_w_pts) \div iw)
                       ELSE Image(path, iw, ih),
              logged |-> <<>>]

(***************************************************************************)
(* generate_report_pdf (src/report_logic.py)                               *)
(***************************************************************************)
T_GENERAL == "General Information"
T_SPEAKER == "Speaker/Guest/Presenter Details"
T_PARTICIPANTS == "Participants Profile"
T_SYNOPSIS == "Synopsis of the Activity (Description)"
T_PREPARED == "Report Prepared By"
T_PROFILE == "Speaker Profile"
T_PHOTOS == "Photos of the Activity"
T_ATTENDANCE == "Attendance List"
T_FLYER == "Flyer of the Event"
T_APPROVAL == "Approval Letter"
T_FEEDBACK == "Feedback Screenshots"
T_IMPACT == "Impact Analysis Report"

NO_PHOTOS == "No photos provided."
NO_FLYER == "No flyer uploaded."
NO_APPROVAL == "No approval letter uploaded."
NO_FEEDBACK == "No feedback screenshots uploaded."
NO_IMPACT == "No impact analysis report uploaded."

\* for p in paths: story.append(image_flowable(p)); story.append(Spacer)
ImageList(paths, disk) ==
    [ok |-> \A i \in 1..Len(paths) : image_flowable(paths[i], disk).ok,
     flows |-> Flatten([i \in 1..Len(paths) |->
                  <<image_flowable(paths[i], disk).flow, Spacer(12)>>]),
     logged |-> Flatten([i \in 1..Len(paths) |->
                  image_flowable(paths[i], disk).logged])]

\* if path: the image and a spacer; else: the placeholder and a spacer
ImageOrPlaceholder(path, none_text, disk) ==
    IF path # NoPath
    THEN ImageList(<<path>>, disk)
    ELSE [ok |-> TRUE,
          flows |-> <<Paragraph(none_text, <<>>, "NormalText"), Spacer(8)>>,
          logged |-> <<>>]

ImagesOrPlaceholder(paths, none_text, disk) ==
    IF paths # <<>>
    THEN ImageList(paths, disk)
    ELSE [ok |-> TRUE,
          flows |-> <<Paragraph(none_text, <<>>, "NormalText"), Spacer(8)>>,
          logged |-> <<>>]

\* The header block and the five form tables (lines 127-166)
FormSections(d) ==
    <<Paragraph("", d.header.university, "HeaderMain")>>
    \o (IF d.header.school # <<>>
        THEN <<Paragraph("", d.header.school, "HeaderSub")>> ELSE <<>>)
    \o (IF d.header.department # <<>>
        THEN <<Paragraph("", d.header.department, "HeaderSub")>> ELSE <<>>)
    \o <<Spacer(20), Paragraph("Activity Report", <<>>, "ReportTitle")>>
    \o <<SectionTitle(T_GENERAL)>> \o make_table_from_dict(d.general_info)
    \o <<SectionTitle(T_SPEAKER)>> \o make_table_from_dict(d.speaker_details)
    \o <<SectionTitle(T_PARTICIPANTS)>>
    \o make_table_from_dict(d.participants_profile)
    \o <<SectionTitle(T_SYNOPSIS)>>
    \o make_table_from_dict(
           <<<<"Highlights of the Activity (Description)", d.synopsis.highlights>>,
             <<"Key Takeaways", d.synopsis.key_takeaways>>,
             <<"Summary of the Activity", d.synopsis.summary>>,
             <<"Follow-up plan", d.synopsis.follow_up_plan>>>>)
    \o <<SectionTitle(T_PREPARED)>>
    \o make_table_from_dict(d.report_prepared_by)

\* A variant that keeps the section's title when the profile is empty
ProfileSection_titled(d, disk) ==
    [ok |-> TRUE,
     flows |-> <<SectionTitle(T_PROFILE),
                 Paragraph("", d.speaker_profile.profile_text, "NormalText"),
                 Spacer(8)>>,
     logged |-> <<>>]

\* The speaker profile section (lines 168-177)
ProfileSection(d, disk) ==
    LET sp == d.speaker_profile
    IN  IF sp.profile_text # <<>> \/ sp.image_path # NoPath
        THEN LET img == IF sp.image_path # NoPath
                        THEN ImageList(<<sp.image_path>>, disk)
                        ELSE [ok |-> TRUE, flows |-> <<>>, logged |-> <<>>]
             IN  [ok |-> img.ok,
                  flows |-> <<SectionTitle(T_PROFILE)>>
                      \o (IF sp.profile_text # <<>>
                          THEN <<Paragraph("", sp.profile_text, "NormalText"),
                                 Spacer(8)>>
                          ELSE <<>>)
                      \o img.flows,
                  logged |-> img.logged]
        ELSE [ok |-> TRUE, flows |-> <<>>, logged |-> <<>>]

\* The story in the order of a different layout: impact before feedback
StoryOf_swapped(d, disk) ==
    LET profile  == ProfileSection(d, disk)
        photos   == ImagesOrPlaceholder(d.photos.image_paths, NO_PHOTOS, disk)
        flyer    == ImageOrPlaceholder(d.flyer_path, NO_FLYER, disk)
        approval == ImageOrPlaceholder(d.approval_path, NO_APPROVAL, disk)
        feedback == ImagesOrPlaceholder(d.feedback_screenshots,
                                        NO_FEEDBACK, disk)
        impact   == ImageOrPlaceholder(d.impact_path, NO_IMPACT, disk)
    IN  [ok |-> profile.ok /\ photos.ok /\ flyer.ok /\ approval.ok
                    /\ feedback.ok /\ impact.ok,
         flows |-> FormSections(d)
             \o profile.flows
             \o <<SectionTitle(T_PHOTOS)>> \o photos.flows
             \o <<SectionTitle(T_ATTENDANCE)>>
             \o participant_table(d.attendance)
             \o <<SectionTitle(T_FLYER)>> \o flyer.flows
             \o <<SectionTitle(T_APPROVAL)>> \o approval.flows
             \o <<SectionTitle(T_IMPACT)>> \o impact.flows
             \o <<SectionTitle(T_FEEDBACK)>> \o feedback.flows,
         logged |-> profile.logged \o photos.logged \o flyer.logged
                        \o approval.logged \o feedback.logged
                        \o impact.logged]

\* The story list as generate_report_pdf appends to it (lines 125-235)
StoryOf(d, disk) ==
    LET profile  == ProfileSection(d, disk)
        photos   == ImagesOrPlaceholder(d.photos.image_paths, NO_PHOTOS, disk)
        flyer    == ImageOrPlaceholder(d.flyer_path, NO_FLYER, disk)
        approval == ImageOrPlaceholder(d.approval_path, NO_APPROVAL, disk)
        feedback == ImagesOrPlaceholder(d.feedback_screenshots,
                                        NO_FEEDBACK, disk)
        impact   == ImageOrPlaceholder(d.impact_path, NO_IMPACT, disk)
    IN  [ok |-> profile.ok /\ photos.ok /\ flyer.ok /\ approval.ok
                    /\ feedback.ok /\ impact.ok,
         flows |-> FormSections(d)
             \o profile.flows
             \o <<SectionTitle(T_PHOTOS)>> \o photos.flows
             \o <<SectionTitle(T_ATTENDANCE)>>
             \o participant_table(d.attendance)
             \o <<SectionTitle(T_FLYER)>> \o flyer.flows
             \o <<SectionTitle(T_APPROVAL)>> \o approval.flows
             \o <<SectionTitle(T_FEEDBACK)>> \o feedback.flows
             \o <<SectionTitle(T_IMPACT)>> \o impact.flows,
         logged |-> profile.logged \o photos.logged \o flyer.logged
                        \o approval.logged \o feedback.logged
                        \o impact.logged]

\* doc.build(story) raises LayoutError for a flowable that fits no page: an
\* image whose draw height exceeds the frame's
FitsPage(flow) == flow.type = "Image" => flow.h <= FRAME_HEIGHT

\* generate_report_pdf(d): the document built (its story), or the
\* exception raised, and what is printed on the way
generate_report_pdf(d, disk) ==
    LET story == StoryOf(d, disk)
    IN  IF ~story.ok
        THEN [ok |-> FALSE, story |-> <<>>, logged |-> story.logged]
        ELSE IF \E i \in 1..Len(story.flows) : ~FitsPage(story.flows[i])
        THEN [ok |-> FALSE, story |-> <<>>, logged |-> story.logged]
        ELSE [ok |-> TRUE, story |-> story.flows, logged |-> story.logged]

(***************************************************************************)
(* Bounds and input domains                                                *)
(***************************************************************************)
MaxRows == 3        \* rows of a workbook's first sheet
MaxRefs == 2        \* image references of a payload handed to the generator

SeqsUpTo(S, n) == UNION {[1..k -> S] : k \in 0..n}

Requests == {1, 2}

\* The cells a first column is drawn from
Cells ==
    {BlankCell, BadCell,
     TextCell(<<"N","a","m","e">>), TextCell(<<" ","N","A","M","E","S"," ">>),
     TextCell(<<" ","A","l"," ">>), TextCell(<<"B","o">>),
     TextCell(<<" "," ">>), TextCell(<<"N","A">>)}

Workbooks == {Workbook(rows) : rows \in SeqsUpTo(Cells, MaxRows)}

\* Image sizes in pixels: narrow, at the limit, just over it, far over it
Widths == {400, 1200, 1201, 2400, 2401, 4800}
Heights == {1, 2, 3, 300, 2000}
Images == {ImageFile(w, h) : w \in Widths, h \in Heights}

\* An empty form: every text field the empty string
EmptyForm ==
    [header |-> [university |-> <<>>, school |-> <<>>, department |-> <<>>],
     general_info |->
        <<<<"Type of Activity", <<>>>>, <<"Title of the Activity", <<>>>>,
          <<"Date/s", <<>>>>, <<"Time", <<>>>>, <<"Venue", <<>>>>,
          <<"Collaboration/Sponsor (if any)", <<>>>>>>,
     speaker_details |->
        <<<<"Name", <<>>>>, <<"Title/Position", <<>>>>,
          <<"Organization", <<>>>>, <<"Title of Presentation", <<>>>>>>,
     participants_profile |->
        <<<<"Type of Participants", <<>>>>, <<"No. of Participants", <<>>>>>>,
     synopsis |-> [highlights |-> <<>>, key_takeaways |-> <<>>,
                   summary |-> <<>>, follow_up_plan |-> <<>>],
     report_prepared_by |->
        <<<<"Name", <<>>>>, <<"Designation/Title", <<>>>>>>,
     speaker_profile |-> [profile_text |-> <<>>, image_path |-> NoPath],
     photos |-> [caption |-> <<>>, image_paths |-> <<>>],
     attendance |-> <<>>,
     flyer_path |-> NoPath,
     approval_path |-> NoPath,
     impact_path |-> NoPath,
     feedback_screenshots |-> <<>>]

(***************************************************************************)
(* Direct calls of the library functions (SpecCalls)                       *)
(***************************************************************************)
NoCall == [fn |-> "none", path |-> NoPath, d |-> <<>>, disk |-> <<>>,
           done |-> TRUE, ret |-> <<>>]

CallOf(fn, path, d, disk) ==
    [fn |-> fn, path |-> path, d |-> d, disk |-> disk, done |-> FALSE,
     ret |-> <<>>]

SheetPath == DestDir("attendance") \o <<"9","_","n",".","x","l","s","x">>

ParseCalls ==
    {CallOf("parse_attendance_excel", SheetPath, <<>>, SheetPath :> c) :
        c \in Workbooks \cup {JunkFile}}
    \cup {CallOf("parse_attendance_excel", SheetPath, <<>>, <<>>)}

\* Saved names with and without an extension ("9_png" is what a file
\* uploaded as ".png" is saved as)
ImagePaths ==
    {DestDir("photos") \o <<"9","_","a",".","P","N","G">>,
     DestDir("photos") \o <<"9","_","p","n","g">>}

ImageDisks(path) ==
    {path :> c : c \in Images \cup {JunkFile}} \cup {<<>>}

ImageCalls ==
    {CallOf(fn, path, <<>>, disk) :
        fn \in {"ensure_image_resized", "image_flowable"},
        path \in ImagePaths, disk \in UNION {ImageDisks(q) : q \in ImagePaths}}

\* The files a payload handed to the generator may refer to: a readable
\* image, a missing file, bytes that are no image, an image taller than a page
P_OK == DestDir("photos") \o <<"9","_","o","k",".","p","n","g">>
P_MISSING == DestDir("photos") \o <<"9","_","g","o","n","e",".","p","n","g">>
P_JUNK == DestDir("photos") \o <<"9","_","b","a","d",".","p","n","g">>
P_TALL == DestDir("feedback") \o <<"9","_","s","s",".","p","n","g">>
PdfPaths == {P_OK, P_MISSING, P_JUNK, P_TALL}
PdfDisk ==
    (P_OK :> ImageFile(400, 300)) @@ (P_JUNK :> JunkFile)
        @@ (P_TALL :> ImageFile(400, 2000))

Slots == {"speaker", "photo", "flyer", "approval", "feedback", "impact"}

\* The paths of the placements of one slot, in order
RefsOf(refs, slot) ==
    LET of == SelectSeq(refs, LAMBDA r : r[1] = slot)
    IN  [i \in 1..Len(of) |-> of[i][2]]

FirstOr(paths) == IF paths = <<>> THEN NoPath ELSE paths[1]

PayloadOf(profile_text, attendance, refs) ==
    [EmptyForm EXCEPT
        !.speaker_profile = [profile_text |-> profile_text,
                             image_path |-> FirstOr(RefsOf(refs, "speaker"))],
        !.photos.image_paths = RefsOf(refs, "photo"),
        !.attendance = attendance,
        !.flyer_path = FirstOr(RefsOf(refs, "flyer")),
        !.approval_path = FirstOr(RefsOf(refs, "approval")),
        !.impact_path = FirstOr(RefsOf(refs, "impact")),
        !.feedback_screenshots = RefsOf(refs, "feedback")]

PdfCalls ==
    {CallOf("generate_report_pdf", NoPath,
            PayloadOf(t, a, refs), PdfDisk) :
        t \in {<<>>, <<"D","r">>},
        a \in {<<>>, <<<<"A","l">>, <<"B","o">>>>},
        refs \in SeqsUpTo(Slots \X PdfPaths, MaxRefs)}

HandlerOff ==
    /\ now = 0
    /\ workload = "calls"
    /\ pc = [r \in Requests |-> "idle"]
    /\ idx = [r \in Requests |-> 0]
    /\ pending = [r \in Requests |-> <<>>]
    /\ left = [r \in Requests |-> 0]
    /\ req = [r \in Requests |-> <<>>]
    /\ data = [r \in Requests |-> <<>>]
    /\ out = [r \in Requests |-> <<>>]
    /\ fs = <<>>
    /\ saves = {}
    /\ log = [r \in Requests |-> <<>>]
    /\ arrival = [r \in Requests |-> 0]

hvars == <<now, workload, pc, idx, pending, left, req, data, out, fs, saves,
           log, arrival>>

InitCalls ==
    /\ HandlerOff
    /\ call \in ParseCalls \cup ImageCalls \cup PdfCalls

CallParse ==
    /\ call.fn = "parse_attendance_excel" /\ ~call.done
    /\ call' = [call EXCEPT !.done = TRUE,
                   !.ret = parse_attendance_excel(call.path, call.disk)]
    /\ UNCHANGED hvars

CallResize ==
    /\ call.fn = "ensure_image_resized" /\ ~call.done
    /\ call' = [call EXCEPT !.done = TRUE,
                   !.ret = ensure_image_resized(call.path, call.disk)]
    /\ UNCHANGED hvars

CallFlowable ==
    /\ call.fn = "image_flowable" /\ ~call.done
    /\ call' = [call EXCEPT !.done = TRUE,
                   !.ret = image_flowable(call.path, call.disk)]
    /\ UNCHANGED hvars

CallGenerate ==
    /\ call.fn = "generate_report_pdf" /\ ~call.done
    /\ call' = [call EXCEPT !.done = TRUE,
                   !.ret = generate_report_pdf(call.d, call.disk)]
    /\ UNCHANGED hvars

NextCalls == CallParse \/ CallResize \/ CallFlowable \/ CallGenerate

SpecCalls == InitCalls /\ [][NextCalls]_vars

(***************************************************************************)
(* Properties of the library functions, checked under SpecCalls           *)
(***************************************************************************)
Returned(fn) == call.fn = fn /\ call.done

Readable(path, disk) == Exists(path, disk) /\ disk[path].kind = "image"

\* The positions of the section titles of a story, and the flowables of the
\* section a title opens (up to the next title), spacers left out
TitleAt(story, i) ==
    story[i].type = "Paragraph" /\ story[i].style = "SectionTitle"

Titles(story) ==
    LET at == SelectSeq([i \in 1..Len(story) |-> i],
                        LAMBDA i : TitleAt(story, i))
    IN  [k \in 1..Len(at) |-> story[at[k]].text]

SectionOf(story, title) ==
    LET i    == CHOOSE j \in 1..Len(story) : story[j] = SectionTitle(title)
        ends == {j \in (i + 1)..Len(story) : TitleAt(story, j)}
        last == IF ends = {} THEN Len(story)
                ELSE (CHOOSE j \in ends : \A k \in ends : j <= k) - 1
    IN  SelectSeq(SubSeq(story, i + 1, last), LAMBDA f : f.type # "Spacer")

HasSection(story, title) ==
    \E j \in 1..Len(story) : story[j] = SectionTitle(title)

\* A section that holds its title and then only the placeholder paragraph
PlaceholderSection(story, title, text) ==
    /\ HasSection(story, title)
    /\ SectionOf(story, title) = <<Paragraph(text, <<>>, "NormalText")>>

NoOptionalInput(d) ==
    /\ d.speaker_profile.profile_text = <<>>
    /\ d.speaker_profile.image_path = NoPath
    /\ d.photos.image_paths = <<>>
    /\ d.attendance = <<>>
    /\ d.flyer_path = NoPath
    /\ d.approval_path = NoPath
    /\ d.feedback_screenshots = <<>>
    /\ d.impact_path = NoPath

SixPlaceholders(story) ==
    /\ PlaceholderSection(story, T_PHOTOS, NO_PHOTOS)
    /\ PlaceholderSection(story, T_ATTENDANCE, NO_ATTENDANCE)
    /\ PlaceholderSection(story, T_FLYER, NO_FLYER)
    /\ PlaceholderSection(story, T_APPROVAL, NO_APPROVAL)
    /\ PlaceholderSection(story, T_FEEDBACK, NO_FEEDBACK)
    /\ PlaceholderSection(story, T_IMPACT, NO_IMPACT)

\* C2 as stated: for a payload with no optional input the document is built
\* and every optional section, Speaker Profile included, shows its title
\* followed by a placeholder paragraph.
C2_AllSectionsHavePlaceholders ==
    (Returned("generate_report_pdf") /\ NoOptionalInput(call.d)) =>
        /\ call.ret.ok
        /\ SixPlaceholders(call.ret.story)
        /\ HasSection(call.ret.story, T_PROFILE)
        /\ Len(SectionOf(call.ret.story, T_PROFILE)) = 1

\* C2 amended: for a payload with no optional input the document is built;
\* Photos, Attendance, Flyer, Approval Letter, Feedback Screenshots and
\* Impact Analysis each show their title followed by their "No ..."
\* placeholder; the Speaker Profile section is left out altogether.
C2_PlaceholdersExceptProfile ==
    (Returned("generate_report_pdf") /\ NoOptionalInput(call.d)) =>
        /\ call.ret.ok
        /\ SixPlaceholders(call.ret.story)
        /\ ~HasSection(call.ret.story, T_PROFILE)

C2_Witness ==
    /\ Returned("generate_report_pdf")
    /\ NoOptionalInput(call.d)
    /\ call.ret.ok

\* C4 as stated: for an image wider than MAX_IMAGE_PX, of any height >= 1
\* (here: one saved under an image extension), ensure_image_resized
\* returns the path of an image at most MAX_IMAGE_PX wide; and an image
\* placed by image_flowable is drawn at most MAX_IMAGE_WIDTH_INCH * 72
\* points wide.
C4_ResizedWithinLimit ==
    /\ (Returned("ensure_image_resized")
            /\ Readable(call.path, call.disk)
            /\ lower(SplitExt(call.path)[2]) \in PIL_EXTENSIONS
            /\ call.disk[call.path].w > MAX_IMAGE_PX
            /\ call.disk[call.path].h >= 1) =>
           /\ Readable(call.ret.path, call.ret.disk)
           /\ call.ret.disk[call.ret.path].w <= MAX_IMAGE_PX
    /\ (Returned("image_flowable") /\ call.ret.flow.type = "Image") =>
           call.ret.flow.w <= MAX_IMAGE_WIDTH_TENTH_INCH * 72

\* The rows below the first, as the names the spreadsheet lists: the text
\* cells, stripped, the empty ones left out
NamesBelowHeader(rows) ==
    LET cells == SelectSeq(Tail(rows), LAMBDA c : c.t = "text")
        names == [i \in 1..Len(cells) |-> strip(cells[i].v)]
    IN  SelectSeq(names, NonEmpty)

\* The same, without the cells pandas reads as missing values and without
\* a first remaining cell that reads like a column title
NamesBelowHeaderKept(rows) ==
    LET cells == SelectSeq(Tail(rows),
                     LAMBDA c : c.t = "text" /\ c.v \notin STR_NA_VALUES)
        kept  == IF cells # <<>> /\ lower(strip(cells[1].v)) \in HEADER_WORDS
                 THEN Tail(cells) ELSE cells
        names == [i \in 1..Len(kept) |-> strip(kept[i].v)]
    IN  SelectSeq(names, NonEmpty)

SheetOfCall == call.disk[call.path].rows

\* A workbook openpyxl reads, whose first row holds the column title
HeaderSheetParsed ==
    /\ Returned("parse_attendance_excel")
    /\ Exists(call.path, call.disk)
    /\ call.disk[call.path].kind = "xlsx"
    /\ SheetOfCall # <<>>
    /\ SheetOfCall[1].t = "text"
    /\ \A i \in 1..Len(SheetOfCall) : SheetOfCall[i].t # "bad"

\* C5 as stated: for a spreadsheet whose first row is a header row the list
\* returned leaves the header cell out and holds, in order and stripped,
\* the non-blank first-column cells below it.
C5_AllCellsBelowHeader ==
    HeaderSheetParsed => call.ret.ret = NamesBelowHeader(SheetOfCall)

\* C5 amended: the list leaves the header cell out and holds, in order and
\* stripped, the non-blank text cells below it, except the cells pandas
\* reads as missing values (NA, N/A, NULL, NaN, None, nan, null) and
\* except the first remaining cell when, stripped and lower-cased, it is
\* name, names, participant or participant name.
C5_CellsBelowHeaderKept ==
    HeaderSheetParsed => call.ret.ret = NamesBelowHeaderKept(SheetOfCall)

C5_Witness ==
    /\ HeaderSheetParsed
    /\ Len(call.ret.ret) = 2
    /\ Len(NamesBelowHeader(SheetOfCall)) = 2

\* A workbook one of whose rows below the header cannot be read
MalformedRowParsed ==
    /\ Returned("parse_attendance_excel")
    /\ Exists(call.path, call.disk)
    /\ call.disk[call.path].kind = "xlsx"
    /\ SheetOfCall # <<>>
    /\ SheetOfCall[1].t = "text"
    /\ \E i \in 2..Len(SheetOfCall) : SheetOfCall[i].t = "bad"

\* C7 as stated: with a malformed row in the spreadsheet only that row is
\* skipped: the names of the other rows are returned and the error is logged.
C7_OnlyBadRowSkipped ==
    MalformedRowParsed =>
        /\ call.ret.ret = NamesBelowHeaderKept(SheetOfCall)
        /\ call.ret.logged # <<>>

\* C7 amended: an error raised while the spreadsheet is read (a malformed
\* row, a file that is no workbook, a missing file) is logged once and the
\* whole list is given up: parse_attendance_excel returns the empty list;
\* a spreadsheet read without error logs nothing.
C7_ErrorGivesUpWholeList ==
    Returned("parse_attendance_excel") =>
        IF /\ Exists(call.path, call.disk)
           /\ call.disk[call.path].kind = "xlsx"
           /\ \A i \in 1..Len(SheetOfCall) : SheetOfCall[i].t # "bad"
        THEN call.ret.logged = <<>>
        ELSE call.ret.ret = <<>> /\ call.ret.logged = <<PARSE_ERROR>>

C7_Witness ==
    /\ MalformedRowParsed
    /\ NamesBelowHeaderKept(SheetOfCall) # <<>>
    /\ call.ret.ret = <<>>

\* What stands for the image at `path`: the image itself, or the text that
\* says it is missing or cannot be loaded
StandsFor(flow, path, disk) ==
    IF ~Exists(path, disk)
    THEN flow = Paragraph(IMAGE_NOT_FOUND, path, "NormalText")
    ELSE IF disk[path].kind # "image"
    THEN flow = Paragraph(IMAGE_FAILED, path, "NormalText")
    ELSE flow.type = "Image" /\ flow.arg = path

AtPositions(entries, paths, disk) ==
    /\ Len(entries) = Len(paths)
    /\ \A i \in 1..Len(paths) : StandsFor(entries[i], paths[i], disk)

ImageRefs(d) ==
    Range(d.photos.image_paths) \cup Range(d.feedback_screenshots)
        \cup ({d.speaker_profile.image_path, d.flyer_path, d.approval_path,
               d.impact_path} \ {NoPath})

\* A readable image that no page can hold at the width it is drawn
TallerThanPage(path, disk) ==
    /\ Readable(path, disk)
    /\ IF disk[path].w * 10 > MAX_IMAGE_WIDTH_TENTH_INCH * 72
       THEN disk[path].h * MAX_IMAGE_WIDTH_TENTH_INCH * 72
                > FRAME_HEIGHT * disk[path].w
       ELSE disk[path].h * 10 > FRAME_HEIGHT

SectionTitlesFor(d) ==
    <<T_GENERAL, T_SPEAKER, T_PARTICIPANTS, T_SYNOPSIS, T_PREPARED>>
    \o (IF d.speaker_profile.profile_text # <<>>
            \/ d.speaker_profile.image_path # NoPath
        THEN <<T_PROFILE>> ELSE <<>>)
    \o <<T_PHOTOS, T_ATTENDANCE, T_FLYER, T_APPROVAL, T_FEEDBACK, T_IMPACT>>

ImagesInPlace(story, d, disk) ==
    /\ d.photos.image_paths # <<>> =>
           AtPositions(SectionOf(story, T_PHOTOS), d.photos.image_paths, disk)
    /\ d.feedback_screenshots # <<>> =>
           AtPositions(SectionOf(story, T_FEEDBACK), d.feedback_screenshots,
                       disk)
    /\ d.flyer_path # NoPath =>
           AtPositions(SectionOf(story, T_FLYER), <<d.flyer_path>>, disk)
    /\ d.approval_path # NoPath =>
           AtPositions(SectionOf(story, T_APPROVAL), <<d.approval_path>>, disk)
    /\ d.impact_path # NoPath =>
           AtPositions(SectionOf(story, T_IMPACT), <<d.impact_path>>, disk)
    /\ d.speaker_profile.image_path # NoPath =>
           LET sec == SectionOf(story, T_PROFILE)
           IN  /\ sec # <<>>
               /\ StandsFor(sec[Len(sec)], d.speaker_profile.image_path, disk)

\* C8: an image path of the payload that names a missing or unreadable file
\* never makes generation fail (it fails only for a readable image taller
\* than a page); the document then holds, at the position of every image of
\* every section, the image or the text that says it is missing or could
\* not be loaded, and every section is produced; and ensure_image_resized
\* returns the path it was given, without raising, for a file it cannot read.
C8_UnreadableImagesBecomePlaceholders ==
    /\ Returned("generate_report_pdf") =>
           /\ call.ret.ok =
                  (\A q \in ImageRefs(call.d) : ~TallerThanPage(q, call.disk))
           /\ call.ret.ok =>
                  /\ Titles(call.ret.story) = SectionTitlesFor(call.d)
                  /\ ImagesInPlace(call.ret.story, call.d, call.disk)
    /\ (Returned("ensure_image_resized") /\ ~Readable(call.path, call.disk)) =>
           /\ call.ret.ok
           /\ call.ret.path = call.path
           /\ call.ret.disk = call.disk

C8_Witness ==
    /\ Returned("generate_report_pdf")
    /\ call.ret.ok
    /\ call.d.photos.image_paths = <<P_MISSING, P_JUNK>>
    /\ call.ret.story # <<>>

(***************************************************************************)
(* The form handler index() of src/app.py                                  *)
(***************************************************************************)
MaxUploads == 1     \* file parts of a request of the "form" workload
MaxTicks == 1       \* milliseconds that pass while requests are served
Epoch == 9          \* the clock when the first request arrives
PHOTO_SLOTS == 5
FEEDBACK_SLOTS == 5

\* An uploaded part (werkzeug FileStorage): its filename and its bytes.
\* A field the form left empty has no filename and is falsy.
Upload(filename, content) == [filename |-> filename, content |-> content]
NoFile == Upload(<<>>, JunkFile)

\* The form's file fields, f'photo_{i}' as <<"photo", i>>
Field(name) == <<name, 0>>
PhotoFields == {<<"photo", i>> : i \in 1..PHOTO_SLOTS}
FeedbackFields == {<<"feedback_ss", i>> : i \in 1..FEEDBACK_SLOTS}
\* What clients attach. Images: small, wide, taller than a page, no image
\* at all, wide and one pixel high under the name ".png"; files whose
\* extension is not accepted; workbooks with names, without, unreadable.
SheetWithNames ==
    Workbook(<<TextCell(<<"N","a","m","e">>), TextCell(<<"A","l">>),
               TextCell(<<"B","o">>)>>)
SheetNoNames == Workbook(<<TextCell(<<"N","a","m","e">>), BlankCell>>)
SheetBadRow ==
    Workbook(<<TextCell(<<"N","a","m","e">>), TextCell(<<"A","l">>), BadCell>>)

ImageUploads ==
    {Upload(<<"a",".","p","n","g">>, ImageFile(400, 300)),
     Upload(<<".",".","/","B"," ","c",".","J","P","G">>, ImageFile(2400, 900)),
     Upload(<<"t",".","j","p","e","g">>, ImageFile(400, 2000)),
     Upload(<<"x",".","g","i","f">>, JunkFile),
     Upload(<<".","p","n","g">>, ImageFile(2401, 1)),
     Upload(<<"a",".","e","x","e">>, ImageFile(400, 300)),
     Upload(<<"p","n","g">>, ImageFile(400, 300))}

\* What the approval letter and impact report fields are given: a scan
\* that fits a page, one that does not
ScanUploads ==
    {Upload(<<"a",".","p","n","g">>, ImageFile(400, 300)),
     Upload(<<"t",".","j","p","e","g">>, ImageFile(400, 2000))}

SheetUploads ==
    {Upload(<<"n",".","x","l","s","x">>, SheetWithNames),
     Upload(<<"e",".","X","L","S","X">>, SheetNoNames),
     Upload(<<"r",".","x","l","s","x">>, SheetBadRow),
     Upload(<<"j",".","x","l","s","x">>, JunkFile),
     Upload(<<"n",".","x","l","s">>, SheetWithNames)}

LoopUploads ==
    {Upload(<<"a",".","P","N","G">>, ImageFile(400, 300)),
     Upload(<<"a",".","e","x","e">>, ImageFile(400, 300))}

\* Two names that are one name after secure_filename
RaceUpload(field) ==
    IF field = <<"photo", 1>>
    THEN Upload(<<"a"," ","b",".","p","n","g">>, ImageFile(400, 300))
    ELSE Upload(<<"a","_","b",".","p","n","g">>, ImageFile(2400, 900))

\* The workloads: one request with a few parts of any kind in the single
\* fields and the first slot of each loop; one request with a picture or
\* a program in any of the five photo slots; the same for the five
\* feedback slots; two concurrent requests with one picture each in one
\* of the first two photo slots
Workloads == {"form", "photos", "screens", "race"}

Active(w) == IF w = "race" THEN {1, 2} ELSE {1}

Budget(w) ==
    IF w = "form" THEN MaxUploads
    ELSE IF w = "photos" THEN PHOTO_SLOTS
    ELSE IF w = "screens" THEN FEEDBACK_SLOTS
    ELSE 1

FieldsUsed(w) ==
    IF w = "form"
    THEN {Field("speaker_image"), <<"photo", 1>>, Field("attendance_excel"),
          Field("flyer"), Field("approval_letter"),
          Field("impact_analysis_report"), <<"feedback_ss", 1>>}
    ELSE IF w = "photos" THEN PhotoFields
    ELSE IF w = "screens" THEN FeedbackFields
    ELSE {<<"photo", 1>>, <<"photo", 2>>}

UploadsFor(w, field) ==
    IF w = "form"
    THEN (IF field = Field("attendance_excel") THEN SheetUploads
          ELSE IF field \in {Field("approval_letter"),
                             Field("impact_analysis_report")}
          THEN ScanUploads
          ELSE ImageUploads)
    ELSE IF w = "race" THEN {RaceUpload(field)}
    ELSE LoopUploads

ProfileTexts(w) == IF w = "form" THEN {<<>>, <<"D","r">>} ELSE {<<>>}

ManualTexts(w) ==
    IF w = "form"
    THEN {<<>>, <<"C","y",","," ","D","i","\n"," ","E","d"," ">>}
    ELSE {<<>>}

\* request.files.get(field): what the client put in the field
Offered(r, field) ==
    {NoFile} \cup (IF left[r] > 0 /\ field \in FieldsUsed(workload)
                   THEN UploadsFor(workload, field) ELSE {})

NoPending ==
    [active |-> FALSE, field |-> Field(""), subfolder |-> "",
     upload |-> NoFile, ts |-> 0, path |-> NoPath, attendance_list |-> <<>>]

NoRequest ==
    [form |-> [profile_text |-> <<>>, attendance_text |-> <<>>],
     files |-> <<>>]

NoResponse == [kind |-> "none", story |-> <<>>, exc |-> ""]

POST_EXCEPTION == "Exception in POST:"

\* except Exception as exc: render_template('index.html', error=str(exc))
ErrorPage(exc) == [kind |-> "error_page", story |-> <<>>, exc |-> exc]

\* send_file(BytesIO(pdf_bytes), mimetype='application/pdf', ...)
PdfDownload(story) == [kind |-> "pdf", story |-> story, exc |-> ""]

Init ==
    /\ now = Epoch
    /\ workload \in Workloads
    /\ pc = [r \in Requests |-> "idle"]
    /\ idx = [r \in Requests |-> 0]
    /\ pending = [r \in Requests |-> NoPending]
    /\ left = [r \in Requests |-> Budget(workload)]
    /\ req = [r \in Requests |-> NoRequest]
    /\ data = [r \in Requests |-> <<>>]
    /\ out = [r \in Requests |-> NoResponse]
    /\ fs = <<>>
    /\ saves = {}
    /\ log = [r \in Requests |-> <<>>]
    /\ arrival = [r \in Requests |-> 0]
    /\ call = NoCall

\* A millisecond passes (only while a request is being served: the clock
\* of an idle server changes nothing)
Tick ==
    /\ now < Epoch + MaxTicks
    /\ \E r \in Requests : pc[r] \notin {"idle", "done"}
    /\ now' = now + 1
    /\ UNCHANGED <<workload, pc, idx, pending, left, req, data, out, fs,
                   saves, log, arrival, call>>

\* A POST request reaches the server
Arrive(r) ==
    /\ r \in Active(workload)
    /\ pc[r] = "idle"
    /\ pc' = [pc EXCEPT ![r] = "form"]
    /\ arrival' = [arrival EXCEPT ![r] = now]
    /\ UNCHANGED <<now, workload, idx, pending, left, req, data, out, fs,
                   saves, log, call>>

\* The except clause of index(): the exception is printed and the form
\* page is rendered with it
Caught(r, exc, printed) ==
    /\ out' = [out EXCEPT ![r] = ErrorPage(exc)]
    /\ log' = [log EXCEPT ![r] = @ \o printed \o <<POST_EXCEPTION>>]
    /\ pc' = [pc EXCEPT ![r] = "done"]
    /\ pending' = [pending EXCEPT ![r] = NoPending]

\* Lines 76-117: the form's text fields are read into data (request.form
\* raises for a body werkzeug cannot parse)
FormStep(r) ==
    /\ pc[r] = "form"
    /\ \E text \in ProfileTexts(workload), parsed \in BOOLEAN :
          IF parsed
          THEN /\ data' = [data EXCEPT ![r] =
                              [EmptyForm EXCEPT
                                  !.speaker_profile.profile_text = text]]
               /\ req' = [req EXCEPT ![r].form.profile_text = text]
               /\ pc' = [pc EXCEPT ![r] = "speaker"]
               /\ UNCHANGED <<out, log, pending>>
          ELSE /\ Caught(r, "BadRequest", <<>>)
               /\ UNCHANGED <<data, req>>
    /\ UNCHANGED <<now, workload, idx, left, fs, saves, arrival, call>>

\* The subfolder and the accepted extensions the handler uses for a field
Subfolder(field) ==
    IF field[1] = "speaker_image" THEN "speaker"
    ELSE IF field[1] = "photo" THEN "photos"
    ELSE IF field[1] = "attendance_excel" THEN "attendance"
    ELSE IF field[1] = "feedback_ss" THEN "feedback"
    ELSE "attachments"

Exts(field) ==
    IF field[1] = "attendance_excel" THEN ALLOWED_EXCEL_EXTS
    ELSE ALLOWED_IMAGE_EXTS

\* save_uploaded_file up to the path it will write: None when nothing is
\* left of the filename after secure_filename
SavePath(filename, subfolder, ts) ==
    IF secure_filename(filename) = <<>> THEN NoPath
    ELSE PathJoin(DestDir(subfolder), SavedName(ts, secure_filename(filename)))

\* Where the handler puts the path of a processed image
Store(d, field, p) ==
    IF field[1] = "speaker_image"
    THEN [d EXCEPT !.speaker_profile.image_path = p]
    ELSE IF field[1] = "photo"
    THEN [d EXCEPT !.photos.image_paths = Append(@, p)]
    ELSE IF field[1] = "flyer" THEN [d EXCEPT !.flyer_path = p]
    ELSE IF field[1] = "approval_letter" THEN [d EXCEPT !.approval_path = p]
    ELSE IF field[1] = "impact_analysis_report"
    THEN [d EXCEPT !.impact_path = p]
    ELSE [d EXCEPT !.feedback_screenshots = Append(@, p)]

\* A spreadsheet without parsed names never replaces the manual list
ChooseAttendance_always(attendance_list, parsed) == parsed

\* if parsed: attendance_list = parsed
ChooseAttendance(attendance_list, parsed) ==
    IF parsed # <<>> THEN parsed ELSE attendance_list

\* The statement that follows the handling of a field
PcAfter(field) ==
    IF field[1] = "speaker_image" THEN "photos"
    ELSE IF field[1] = "photo"
    THEN (IF field[2] < PHOTO_SLOTS THEN "photos" ELSE "attendance")
    ELSE IF field[1] = "attendance_excel" THEN "flyer"
    ELSE IF field[1] = "flyer" THEN "approval"
    ELSE IF field[1] = "approval_letter" THEN "impact"
    ELSE IF field[1] = "impact_analysis_report" THEN "feedback"
    ELSE (IF field[2] < FEEDBACK_SLOTS THEN "feedback" ELSE "generate")

IdxAfter(field) ==
    IF field[1] = "speaker_image" THEN 1
    ELSE IF field[1] = "photo"
    THEN (IF field[2] < PHOTO_SLOTS THEN field[2] + 1 ELSE 0)
    ELSE IF field[1] = "impact_analysis_report" THEN 1
    ELSE IF field[1] = "feedback_ss"
    THEN (IF field[2] < FEEDBACK_SLOTS THEN field[2] + 1 ELSE 0)
    ELSE 0

Advance(r, field) ==
    /\ pc' = [pc EXCEPT ![r] = PcAfter(field)]
    /\ idx' = [idx EXCEPT ![r] = IdxAfter(field)]

\* f = request.files.get(field); if f and allowed_file(...): the call of
\* save_uploaded_file up to the reading of the clock. A field that is
\* empty or holds a file of another extension is passed over.
Receive(r, field, form, attendance_list) ==
    \E u \in Offered(r, field) :
       /\ req' = [req EXCEPT ![r] =
                     [form |-> form,
                      files |-> IF u = NoFile THEN @.files
                                ELSE Append(@.files, <<field, u>>)]]
       /\ left' = [left EXCEPT ![r] = IF u = NoFile THEN @ ELSE @ - 1]
       /\ IF u.filename # <<>> /\ allowed_file(u.filename, Exts(field))
          THEN /\ pending' = [pending EXCEPT ![r] =
                     [active |-> TRUE, field |-> field,
                      subfolder |-> Subfolder(field), upload |-> u,
                      ts |-> now,
                      path |-> SavePath(u.filename, Subfolder(field), now),
                      attendance_list |-> attendance_list]]
               /\ UNCHANGED <<pc, idx, data>>
          ELSE /\ Advance(r, field)
               /\ data' = [data EXCEPT ![r] =
                     IF field[1] = "attendance_excel"
                     THEN [@ EXCEPT !.attendance = attendance_list]
                     ELSE @]
               /\ UNCHANGED pending

ImageStep(r, field) ==
    /\ ~pending[r].active
    /\ Receive(r, field, req[r].form, <<>>)
    /\ UNCHANGED <<now, workload, out, fs, saves, log, arrival, call>>

\* Lines 119-127
SpeakerStep(r) ==
    /\ pc[r] = "speaker"
    /\ ImageStep(r, Field("speaker_image"))

\* Lines 129-137, one pass of the loop
PhotoStep(r) ==
    /\ pc[r] = "photos"
    /\ ImageStep(r, <<"photo", idx[r]>>)

\* Lines 139-150
AttendanceStep(r) ==
    /\ pc[r] = "attendance"
    /\ ~pending[r].active
    /\ \E text \in ManualTexts(workload) :
          Receive(r, Field("attendance_excel"),
                  [req[r].form EXCEPT !.attendance_text = text],
                  parse_attendance_text(text))
    /\ UNCHANGED <<now, workload, out, fs, saves, log, arrival, call>>

\* Lines 152-157
FlyerStep(r) ==
    /\ pc[r] = "flyer"
    /\ ImageStep(r, Field("flyer"))

\* Lines 159-163
ApprovalStep(r) ==
    /\ pc[r] = "approval"
    /\ ImageStep(r, Field("approval_letter"))

\* Lines 165-169
ImpactStep(r) ==
    /\ pc[r] = "impact"
    /\ ImageStep(r, Field("impact_analysis_report"))

\* Lines 171-178, one pass of the loop
FeedbackStep(r) ==
    /\ pc[r] = "feedback"
    /\ ImageStep(r, <<"feedback_ss", idx[r]>>)

\* The rest of save_uploaded_file, fileobj.save(path), which may fail (disk
\* full, no permission), and what the handler does with the file: the
\* resize of an image, the parse of the attendance sheet
SaveUpload(r) ==
    /\ pending[r].active
    /\ LET p      == pending[r]
           disk   == IF p.path = NoPath THEN fs
                     ELSE (p.path :> p.upload.content) @@ fs
           sized  == ensure_image_resized(p.path, disk)
           parsed == parse_attendance_excel(p.path, disk)
           sheet  == p.field[1] = "attendance_excel"
       IN  \E written \in BOOLEAN :
              IF ~written
              THEN /\ Caught(r, "OSError", <<>>)
                   /\ UNCHANGED <<idx, data, fs, saves>>
              ELSE IF ~sheet /\ ~sized.ok
              THEN /\ Caught(r, "ResizeError", <<>>)
                   /\ fs' = disk
                   /\ saves' = saves \cup
                         {[req |-> r, field |-> p.field, ts |-> p.ts,
                           path |-> p.path, upload |-> p.upload]}
                   /\ UNCHANGED <<idx, data>>
              ELSE /\ fs' = IF sheet THEN disk ELSE sized.disk
                   /\ saves' = saves \cup
                         {[req |-> r, field |-> p.field, ts |-> p.ts,
                           path |-> p.path, upload |-> p.upload]}
                   /\ data' = [data EXCEPT ![r] =
                         IF sheet
                         THEN [@ EXCEPT !.attendance =
                                  ChooseAttendance(p.attendance_list,
                                                   parsed.ret)]
                         ELSE Store(@, p.field, sized.path)]
                   /\ log' = [log EXCEPT ![r] =
                         @ \o (IF sheet THEN parsed.logged ELSE sized.logged)]
                   /\ pending' = [pending EXCEPT ![r] = NoPending]
                   /\ Advance(r, p.field)
                   /\ UNCHANGED out
    /\ UNCHANGED <<now, workload, left, req, arrival, call>>

\* Lines 181-188: the document is built and sent; an exception of
\* generate_report_pdf reaches the except clause
GenerateStep(r) ==
    /\ pc[r] = "generate"
    /\ LET built == generate_report_pdf(data[r], fs)
       IN  IF built.ok
           THEN /\ out' = [out EXCEPT ![r] = PdfDownload(built.story)]
                /\ log' = [log EXCEPT ![r] = @ \o built.logged]
                /\ pc' = [pc EXCEPT ![r] = "done"]
                /\ UNCHANGED pending
           ELSE Caught(r, "LayoutError", built.logged)
    /\ UNCHANGED <<now, workload, idx, left, req, data, fs, saves, arrival,
                   call>>

Next ==
    \/ Tick
    \/ \E r \in Requests :
          \/ Arrive(r)
          \/ FormStep(r)
          \/ SpeakerStep(r)
          \/ PhotoStep(r)
          \/ AttendanceStep(r)
          \/ FlyerStep(r)
          \/ ApprovalStep(r)
          \/ ImpactStep(r)
          \/ FeedbackStep(r)
          \/ SaveUpload(r)
          \/ GenerateStep(r)

Spec == Init /\ [][Next]_vars

(***************************************************************************)
(* Properties of the handler, checked under Spec                           *)
(***************************************************************************)
AttendanceField == Field("attendance_excel")

\* The uploads of request r that save_uploaded_file has written
SavesOf(r) == {s \in saves : s.req = r}

\* A workbook pandas reads without error, and the names its first column
\* yields
ValidSheet(content) ==
    /\ content.kind = "xlsx"
    /\ \A i \in 1..Len(content.rows) : content.rows[i].t # "bad"

SheetNames(content) ==
    IF content.rows = <<>> THEN <<>> ELSE NamesBelowHeaderKept(content.rows)

\* Request r carried a manual attendance text and a valid spreadsheet, and
\* the handler has dealt with both
BothGiven(r, s) ==
    /\ s \in SavesOf(r)
    /\ s.field = AttendanceField
    /\ ValidSheet(s.upload.content)
    /\ req[r].form.attendance_text # <<>>

\* C1 as stated: with a manual text and a valid spreadsheet the payload's
\* attendance list is the list parsed from the spreadsheet, also when the
\* spreadsheet yields no names.
C1_SheetAlwaysWins ==
    \A r \in Requests : \A s \in SavesOf(r) :
        BothGiven(r, s) =>
            data[r].attendance = SheetNames(s.upload.content)

\* C1 amended: with a manual text and a valid spreadsheet the payload's
\* attendance list is the list parsed from the spreadsheet when that list
\* is not empty; a spreadsheet that yields no names leaves the list parsed
\* from the manual text in place.
C1_SheetWinsWhenItHasNames ==
    \A r \in Requests : \A s \in SavesOf(r) :
        BothGiven(r, s) =>
            data[r].attendance =
                IF SheetNames(s.upload.content) # <<>>
                THEN SheetNames(s.upload.content)
                ELSE parse_attendance_text(req[r].form.attendance_text)

C1_Witness ==
    \E r \in Requests : \E s \in SavesOf(r) :
        /\ BothGiven(r, s)
        /\ SheetNames(s.upload.content) = <<>>
        /\ Len(data[r].attendance) = 3

\* C3 as stated: two saves of two concurrently served requests write the
\* same path only if the requests arrived within the same millisecond.
C3_CollideOnlyIfSameArrival ==
    \A s1, s2 \in saves :
        (s1.req # s2.req /\ s1.path = s2.path) =>
            arrival[s1.req] = arrival[s2.req]

\* C3 amended: the millisecond in the file name is read by
\* save_uploaded_file when it runs, not when the request arrives. Two saves
\* (of two requests or of one) write the same path exactly when they read
\* the same millisecond, use the same subfolder and their filenames are
\* the same after secure_filename; whether the requests arrived in the
\* same millisecond decides nothing.
C3_CollideIffSameStamp ==
    \A s1, s2 \in saves :
        /\ (s1.path = s2.path) <=>
               /\ s1.ts = s2.ts
               /\ Subfolder(s1.field) = Subfolder(s2.field)
               /\ secure_filename(s1.upload.filename)
                      = secure_filename(s2.upload.filename)
        /\ arrival[s1.req] <= s1.ts
        /\ s1.ts <= now

C3_Witness ==
    \E s1, s2 \in saves :
        /\ s1.req # s2.req
        /\ s1.path = s2.path
        /\ s1.upload # s2.upload
        /\ arrival[s1.req] # arrival[s2.req]

\* What the handler printed for request r
Printed(r) == Range(log[r])

\* C6 as stated: every request ends in a PDF download or in the form page
\* with an error message, and an exception raised at any step (each one is
\* printed) leads to the error page.
C6_EveryExceptionGivesErrorPage ==
    \A r \in Requests :
        pc[r] = "done" =>
            /\ out[r].kind \in {"pdf", "error_page"}
            /\ Printed(r) # {} => out[r].kind = "error_page"

\* C6 amended: every request ends in a PDF download or in the form page
\* with an error message, and no exception escapes the handler. An
\* exception raised while the form is read, while an upload is written or
\* by generate_report_pdf leads to the error page. An exception raised
\* inside ensure_image_resized, parse_attendance_excel or image_flowable
\* is printed and absorbed there: the request goes on and may end in a PDF
\* download.
C6_EscapingExceptionsGiveErrorPage ==
    \A r \in Requests :
        /\ pc[r] # "done" => out[r].kind = "none"
        /\ pc[r] = "done" =>
               /\ out[r].kind \in {"pdf", "error_page"}
               /\ out[r].kind = "error_page" <=> POST_EXCEPTION \in Printed(r)
               /\ out[r].kind = "error_page" =>
                      /\ out[r].exc \in {"BadRequest", "OSError", "LayoutError"}
                      /\ out[r].story = <<>>
               /\ out[r].kind = "pdf" =>
                      /\ out[r].exc = ""
                      /\ out[r].story # <<>>

C6_Witness ==
    \E r \in Requests :
        /\ pc[r] = "done"
        /\ out[r].kind = "pdf"
        /\ RESIZE_ERROR \in Printed(r)

\* The extension of a filename is one the slot takes, whatever its case
ExtensionOf(filename) ==
    LET k == LastDot(filename)
    IN  IF k = 0 THEN <<>>
        ELSE lower(SubSeq(filename, k + 1, Len(filename)))

Accepts(field, filename) ==
    LET ext == ExtensionOf(filename)
    IN  /\ "." \in Range(filename)
        /\ IF field = AttendanceField
           THEN ext = <<"x","l","s","x">>
           ELSE ext \in {<<"p","n","g">>, <<"j","p","g">>,
                         <<"j","p","e","g">>, <<"g","i","f">>}

\* The paths under which the payload may name a saved image: the path
\* written, or the resized copy next to it
PathsFor(s) ==
    LET parts == SplitExt(s.path)
    IN  {s.path, parts[1] \o RESIZED \o parts[2]}

\* The file parts of request r the handler has read and is done with
\* (the one being written is still pending)
PartsRead(r) ==
    IF pending[r].active
    THEN SubSeq(req[r].files, 1, Len(req[r].files) - 1)
    ELSE req[r].files

\* The path lies in the subfolder the field's uploads go to
InUploadFolder(path, field) ==
    /\ Len(path) > 3
    /\ SubSeq(path, 1, 3) = <<"uploads/", Subfolder(field), "/">>
    /\ \A i \in 4..Len(path) : path[i] # "/"

\* The write of the part failed and ended the request
WriteFailed(r, k) ==
    /\ k = Len(req[r].files)
    /\ out[r].kind = "error_page"
    /\ out[r].exc = "OSError"

\* C9: an upload is saved to the upload directory, and named by the
\* payload, only if its extension,
\* compared without regard to case, is one of png, jpg, jpeg, gif in an
\* image slot, or xlsx in the attendance slot (and then it is saved, unless
\* the write itself fails); an upload with another extension is passed
\* over: nothing is saved for it and the request does not end in an error
\* for it; the payload's photo list and feedback list hold at most five
\* paths each.
C9_OnlyAcceptedExtensionsSaved ==
    \A r \in Requests :
        LET saved == SavesOf(r)
            parts == PartsRead(r)
        IN  /\ \A s \in saved :
                   /\ Accepts(s.field, s.upload.filename)
                   /\ Exists(s.path, fs)
                   /\ InUploadFolder(s.path, s.field)
            /\ \A k \in 1..Len(parts) :
                   LET field == parts[k][1]
                       u     == parts[k][2]
                   IN  IF Accepts(field, u.filename)
                       THEN WriteFailed(r, k) \/
                                \E s \in saved :
                                    s.field = field /\ s.upload = u
                       ELSE /\ ~WriteFailed(r, k)
                            /\ \A s \in saved : s.field # field
            /\ data[r] # <<>> =>
                   /\ \A q \in ImageRefs(data[r]) :
                          \E s \in saved :
                              s.field # AttendanceField /\ q \in PathsFor(s)
                   /\ Len(data[r].photos.image_paths) <= PHOTO_SLOTS
                   /\ Len(data[r].feedback_screenshots) <= FEEDBACK_SLOTS

C9_Witness ==
    \E r \in Requests :
        /\ out[r].kind = "pdf"
        /\ Len(data[r].photos.image_paths) = PHOTO_SLOTS
        /\ \A k \in 1..Len(req[r].files) :
               req[r].files[k][2].filename = <<"a",".","P","N","G">>

\* The slots of a loop for which request r saved an upload, in the order
\* of the slots, and the paths saved for them
SlotsSaved(r, name, slots) ==
    SelectSeq([i \in 1..slots |-> i],
              LAMBDA i : \E s \in SavesOf(r) : s.field = <<name, i>>)

SaveOfSlot(r, name, i) ==
    CHOOSE s \in SavesOf(r) : s.field = <<name, i>>

InSlotOrder(r, name, slots, paths) ==
    /\ Len(paths) = Len(SlotsSaved(r, name, slots))
    /\ \A k \in 1..Len(paths) :
           paths[k] \in PathsFor(SaveOfSlot(r, name, SlotsSaved(r, name, slots)[k]))

\* The paths the entries of a section stand for, in their order
PathsShown(story, title) ==
    [k \in 1..Len(SectionOf(story, title)) |-> SectionOf(story, title)[k].arg]

PositionOf(story, title) ==
    CHOOSE j \in 1..Len(story) : story[j] = SectionTitle(title)

\* C10: the section titles of the document appear in the fixed order
\* General Information, Speaker/Guest/Presenter Details, Participants
\* Profile, Synopsis of the Activity (Description), Report Prepared By,
\* Speaker Profile
\* (only with profile text or image), Photos of the Activity, Attendance
\* List, Flyer of the Event, Approval Letter, Feedback Screenshots, Impact
\* Analysis Report; Feedback Screenshots precedes Impact Analysis Report;
\* and the entries of the photo and feedback sections follow the order of
\* the upload slots they were saved from.
C10_SectionsAndSlotsInOrder ==
    \A r \in Requests :
        out[r].kind = "pdf" =>
            /\ Titles(out[r].story) = SectionTitlesFor(data[r])
            /\ PositionOf(out[r].story, T_FEEDBACK)
                   < PositionOf(out[r].story, T_IMPACT)
            /\ InSlotOrder(r, "photo", PHOTO_SLOTS,
                           data[r].photos.image_paths)
            /\ InSlotOrder(r, "feedback_ss", FEEDBACK_SLOTS,
                           data[r].feedback_screenshots)
            /\ data[r].photos.image_paths # <<>> =>
                   PathsShown(out[r].story, T_PHOTOS)
                       = data[r].photos.image_paths
            /\ data[r].feedback_screenshots # <<>> =>
                   PathsShown(out[r].story, T_FEEDBACK)
                       = data[r].feedback_screenshots

C10_Witness ==
    \E r \in Requests :
        /\ out[r].kind = "pdf"
        /\ SlotsSaved(r, "photo", PHOTO_SLOTS) = <<2, 4>>
        /\ data[r].photos.image_paths[1] # data[r].photos.image_paths[2]
        /\ data[r].speaker_profile.profile_text = <<>>

====
